---- MODULE Spec2Model ----
(***************************************************************************)
(* Plugin supervision subsystem of toru-steering-center.                   *)
(*                                                                         *)
(* The model follows src/src/services/plugins.rs (PluginSupervisor),       *)
(* src/src/routes/plugins.rs (the HTTP handlers that take the supervisor   *)
(* mutex) and src/toru-plugin-api/src/protocol.rs (the frame codec).       *)
(* Every supervisor operation runs in a task that owns the supervisor      *)
(* (the tokio Mutex guard of the handlers, the &mut self borrow of the     *)
(* direct callers); an operation is cut into steps at its suspension       *)
(* points (socket wait, child wait, sleep), where the plugin processes,    *)
(* modelled as the environment, may act.                                   *)
(*                                                                         *)
(* Child processes are kept per plugin id: cur[p] is the child the last    *)
(* spawn for p created (the only one a registry row can refer to, since    *)
(* every spawn overwrites the row), orphans[p] counts the earlier children *)
(* of p that were still alive when a later spawn replaced them. A replaced *)
(* child is taken to have bound its socket before it was replaced or not   *)
(* at all.                                                                 *)
(***************************************************************************)
EXTENDS Integers, Sequences, FiniteSets, TLC

\* ------------------------------------------------------------------ bounds
\* Plugin ids callers may name.
PluginIds == {"p", "q"}
\* Concurrent callers of the supervisor (HTTP handler tasks, direct callers).
Tasks == {"t1", "t2"}
\* Live children of one plugin id that the registry no longer refers to.
MaxOrphans == 1
\* The supervisor-construction parameter max_restarts.
max_restarts == 2
\* Crashes handled for one plugin beyond max_restarts.
MaxExtraCrashes == 1
\* Entries of a plugins directory.
MaxDirLen == 2
\* Frames in flight on one stream.
MaxFrames == 2
\* Request ids a forwarder or a plugin may put in a frame.
ReqIds == {1, 2}
\* Characters of a metadata id, and of a metadata route.
MaxIdLen == 2
MaxRouteLen == 3
\* Candidates of a plugins directory.
MaxCands == 2
\* LogConfig.max_file_size, in log entries, and LogConfig.max_rotated_files.
max_file_size == 2
max_rotated_files == 2
\* Log writes of a behaviour, and seconds that go by during it.
MaxWrites == 7
MaxSecond == 1

\* ------------------------------------------------------- program constants
MAX_MESSAGE_SIZE == 16 * 1024 * 1024
\* The longest name and author read_plugin_metadata lets through.
MaxFieldLen == 100

VARIABLES
    dir,              \* the plugins directory as read_dir lists it: a sequence
                      \* of entries [path, id, route], id and route being what
                      \* the binary prints for --metadata; fixed
    binaries,         \* ids whose binary <plugins_dir>/<id>.binary exists (each
                      \* printing valid metadata); fixed during a behaviour
    discovered,       \* the map a lone scan_plugins_directory call returned
    kv,               \* table plugin_kv: a set of rows [plugin_id, key, value]
    kvLast,           \* the last KV operation and what it returned
    stream,           \* bytes written to a protocol stream and not yet taken
                      \* by a reader
    pending,          \* envelopes written to the stream that read_message has
                      \* not returned yet, oldest first
    got,              \* what the last read_message call met and returned
    plugins,          \* registry: plugin id -> PluginProcess row
    restart_counts,   \* plugin id -> u32 (0 when the key is absent)
    config,           \* .metadata/config.json: id -> "absent" | "true" | "false"
    cur,              \* plugin id -> state of the child last spawned for it:
                      \*   "none" | "starting" | "listening" | "dying" (kill
                      \*   signal sent) | "exited" | "eof" (exited and its
                      \*   stderr reader task has ended)
    orphans,          \* plugin id -> number of live replaced children
    inited,           \* plugin id -> the host has written a lifecycle init
                      \* message on a connection to the child last spawned
    sock,             \* plugin id -> the file <sockets_dir>/<id>.sock exists
    wire,             \* bytes the operation in progress wrote on its connection
    sentMsg,          \* the envelope those bytes were meant to carry
    events,           \* rows the operation in progress handed to
                      \* notify_plugin_event (nothing reads the sinks back, so
                      \* rows of finished operations are not kept)
    lock,             \* owner of the supervisor (mutex guard / &mut borrow)
    pc,               \* task -> position in its operation
    op,               \* task -> operation it runs
    arg,              \* task -> plugin id argument
    rt,               \* task -> route of a forwarded request
    req,              \* task -> request_id assigned by the forwarder
    resp,             \* task -> request_id of the response frame it accepted
    result,           \* task -> outcome of the finished operation
    todo,             \* task -> plugins initialize has still to visit
    candidates,       \* the .binary files of a plugins directory in read_dir
                      \* order, each with where its path resolves to and what
                      \* running it with --metadata gives; fixed
    scanned,          \* what scan_plugins_directory returned for candidates
    sinkDown,         \* the sinks of notify_plugin_event that fail just now:
                      \* "file" (supervisor log), "table" (plugin_events)
    fileLog,          \* rows of the operation in progress that reached the
                      \* supervisor log file
    eventTable,       \* rows of the operation in progress that reached the
                      \* plugin_events table
    files,            \* <log_dir>/plugins: file name -> [size, mtime], size
                      \* in log entries, mtime the time of the last write
    second,           \* the UTC clock, in seconds
    mclock,           \* the clock modification times are taken from
    logged            \* the last piece a stderr task read and what log_plugin
                      \* did with its entry

vars == <<dir, binaries, discovered, kv, kvLast, stream, pending, got, plugins, restart_counts, config, cur, orphans,
          inited, sock, wire, sentMsg, events, lock, pc, op, arg, rt, req, resp,
          result, todo, candidates, scanned, sinkDown, fileLog, eventTable,
          files, second, mclock, logged>>

scanVars == <<dir, binaries, discovered>>
dbVars == <<kv, kvLast>>
streamVars == <<stream, pending, got>>
probeVars == <<candidates, scanned>>
sinkVars == <<sinkDown, fileLog, eventTable>>
logVars == <<files, second, mclock, logged>>
\* The variables of the parts modelled on their own.
extraVars == <<probeVars, logVars>>
\* What no supervisor operation touches.
sideVars == <<scanVars, dbVars, streamVars, extraVars>>

supVars == <<plugins, restart_counts, config, sock, wire, sentMsg, events>>
procVars == <<cur, orphans, inited>>
taskLocals == <<op, arg, rt, req, resp, result, todo>>
\* The supervisor, its plugins and its callers.
coreVars == <<scanVars, dbVars, streamVars, supVars, procVars, sinkVars, lock,
              pc, taskLocals>>

\* ------------------------------------------------------------ data model
NoRow == [present |-> FALSE, enabled |-> FALSE, process |-> "None",
          pid |-> "None", metadata |-> "none"]

\* PluginProcess { process: Some(child), enabled: true, metadata: Some(..), pid }
NewRow(meta) ==
    [present |-> TRUE, enabled |-> TRUE, process |-> "Some", pid |-> "Some",
     metadata |-> meta]

\* Routes a plugin binary may declare in its --metadata output.
Routes == {"/p", "/q"}

\* File names of the plugins directory.
Paths == {"a.binary", "p.binary", "q.binary"}

\* A directory entry: a .binary file and the id and route its metadata hold.
Entries == [path : Paths, id : PluginIds, route : Routes]
NoEntry == [path |-> "none", id |-> "none", route |-> "none"]

\* Directory listings: no file name twice.
DirListings ==
    {d \in UNION {[1..n -> Entries] : n \in 0..MaxDirLen} :
        \A i, j \in 1..Len(d) : i # j => d[i].path # d[j].path}

\* let mut discovered = HashMap::new()
NothingDiscovered == [p \in PluginIds |-> NoEntry]

\* The loop of scan_plugins_directory over the entries in read_dir order:
\* discovered.insert(metadata.id.clone(), (path, metadata)) for each, an
\* insert under a key already there replacing the value.
RECURSIVE ScanEntries(_, _)
ScanEntries(entries, found) ==
    IF entries = <<>> THEN found
    ELSE ScanEntries(Tail(entries),
                     [found EXCEPT ![Head(entries).id] = Head(entries)])

\* The route in the metadata a scan returns for plugin p.
MetaRoute(p) == ScanEntries(dir, NothingDiscovered)[p].route

\* --------------------------------------------------------- metadata probe
\* Characters a metadata id is written with.
IdChars == {"a", "7", "-", "/"}
\* Characters a metadata route is written with.
RouteChars == {"/", ".", "x"}

\* char::is_ascii_alphanumeric
is_ascii_alphanumeric(c) == c \in {"a", "7"}

\* str::starts_with, str::ends_with and str::contains on sequences.
starts_with(s, prefix) ==
    Len(s) >= Len(prefix) /\ SubSeq(s, 1, Len(prefix)) = prefix
ends_with(s, suffix) ==
    Len(s) >= Len(suffix)
        /\ SubSeq(s, Len(s) - Len(suffix) + 1, Len(s)) = suffix
contains(s, pat) ==
    \E i \in 1..(Len(s) - Len(pat) + 1) : SubSeq(s, i, i + Len(pat) - 1) = pat

\* Strings of at most n characters of cs.
StringsOver(cs, n) == UNION {[1..k -> cs] : k \in 0..n}

\* Lengths of a free-text metadata field, around the limit.
FieldLens == {0, MaxFieldLen, MaxFieldLen + 1}

\* PluginMetadata as the probe's JSON gives it: id and route as strings,
\* name and version by their length, author None (<<>>) or Some (<<length>>).
Metadatas ==
    [id : StringsOver(IdChars, MaxIdLen),
     route : StringsOver(RouteChars, MaxRouteLen),
     name : FieldLens,
     version : FieldLens,
     author : {<<>>} \cup {<<n>> : n \in FieldLens}]

\* Metadata with nothing but the id to tell them apart.
PlainMetadata(id) ==
    [id |-> id, route |-> <<"/", "x">>, name |-> 0, version |-> 0,
     author |-> <<>>]

\* A .binary file of the plugins directory: inside, whether its canonical
\* path is under the canonical plugins directory; exit0, whether the run
\* with --metadata exits with success; json, whether its stdout parses
\* as PluginMetadata; metadata, what it parses to.
Candidate(path, inside, exit0, json, metadata) ==
    [path |-> path, inside |-> inside, exit0 |-> exit0, json |-> json,
     metadata |-> metadata]

\* The validation of read_plugin_metadata, check by check.
id_format_ok(m) ==
    \A i \in 1..Len(m.id) : is_ascii_alphanumeric(m.id[i]) \/ m.id[i] = "-"
route_ok(m) == starts_with(m.route, <<"/">>) /\ ~contains(m.route, <<".", ".">>)
field_lengths_ok(m) ==
    ~(m.name > MaxFieldLen \/ (m.author # <<>> /\ m.author[1] > MaxFieldLen))

\* read_plugin_metadata(binary_path): run the binary, parse, validate.
read_plugin_metadata(c) ==
    IF ~c.exit0 THEN [ok |-> FALSE, err |-> "Plugin --metadata command failed"]
    ELSE IF ~c.json
    THEN [ok |-> FALSE, err |-> "Failed to parse plugin metadata JSON"]
    ELSE IF ~id_format_ok(c.metadata)
    THEN [ok |-> FALSE, err |-> "Invalid plugin ID format"]
    ELSE IF ~route_ok(c.metadata)
    THEN [ok |-> FALSE, err |-> "Invalid plugin route"]
    ELSE IF ~field_lengths_ok(c.metadata)
    THEN [ok |-> FALSE, err |-> "Metadata field too long"]
    ELSE [ok |-> TRUE, err |-> "none"]

\* discovered.insert(key, value) on a map kept as a function.
Insert(found, key, value) ==
    [k \in DOMAIN found \cup {key} |-> IF k = key THEN value ELSE found[k]]

\* A scan that gives up at a candidate it cannot take, as a ? on the
\* probe's result would, letting go of what it had found.
scan_entry_Mutant(found, c) ==
    IF c.inside /\ read_plugin_metadata(c).ok
    THEN Insert(found, c.metadata.id, [path |-> c.path, metadata |-> c.metadata])
    ELSE <<>>

\* The body of the loop of scan_plugins_directory for one .binary entry:
\* continue when the path resolves outside the plugins directory, probe,
\* insert under the metadata id on Ok, log and go on on Err.
scan_entry(found, c) ==
    IF ~c.inside THEN found
    ELSE IF read_plugin_metadata(c).ok
    THEN Insert(found, c.metadata.id, [path |-> c.path, metadata |-> c.metadata])
    ELSE found

\* The loop of scan_plugins_directory over the entries in read_dir order.
RECURSIVE scan_loop(_, _)
scan_loop(cs, found) ==
    IF cs = <<>> THEN found ELSE scan_loop(Tail(cs), scan_entry(found, Head(cs)))

\* No scan of the candidates has returned yet.
NotProbed == [done |-> FALSE, ok |-> FALSE, map |-> <<>>]

\* Listings of candidates: no file name twice.
CandidateListings ==
    {d \in UNION {[1..n -> [path : Paths, inside : BOOLEAN, exit0 : BOOLEAN,
                            json : BOOLEAN,
                            metadata : {PlainMetadata(<<"a">>),
                                        PlainMetadata(<<"7">>),
                                        PlainMetadata(<<"/">>)}]] :
                   n \in 0..MaxCands} :
        \A i, j \in 1..Len(d) : i # j => d[i].path # d[j].path}

\* ------------------------------------------------------------ PluginLogger
\* Plugin ids a log entry may carry, as the parts their names are made of:
\* foo and foo-bar.
LogIds == {<<"foo">>, <<"foo", "-bar">>}

\* What a stderr task may read in one piece: text that is no LogEntry, or
\* the JSON of a LogEntry whose plugin field is absent (<<>>) or names an
\* id (<<id>>).
Pieces ==
    {[json |-> FALSE, plugin |-> <<>>]}
        \cup {[json |-> TRUE, plugin |-> pl] :
                 pl \in {<<>>} \cup {<<id>> : id \in LogIds}}

\* The entry the stderr task of plugin_id makes of a piece: the LogEntry it
\* parses to, or LogEntry::new(Info, text).with_plugin(plugin_id).
EntryOf(plugin_id, piece) ==
    IF piece.json
    THEN [level |-> "parsed", plugin |-> piece.plugin]
    ELSE [level |-> "Info", plugin |-> <<plugin_id>>]

\* Utc::now().format("%Y%m%d-%H%M%S") at each second of the clock.
Timestamps == <<"t0", "t1", "t2", "t3", "t4">>

\* get_plugin_log_path, Path::file_stem and Path::extension on file names.
get_plugin_log_path(plugin_id) == plugin_id \o <<".", "log">>
file_stem(path) == SubSeq(path, 1, Len(path) - 2)
extension(path) == <<path[Len(path)]>>

\* The name rotate_log gives the file it puts aside at second s.
RotatedName(stem, s) == stem \o <<"-", Timestamps[s + 1], ".", "log">>

\* fs::rename: the file is known by the new name, in place of any file
\* that had it.
Rename(fs, from, to) ==
    [n \in (DOMAIN fs \ {from}) \cup {to} |-> IF n = to THEN fs[from] ELSE fs[n]]

\* The files cleanup_old_rotated_logs takes for rotated logs of stem.
RotatedFiles(fs, stem, ext) ==
    {n \in DOMAIN fs : starts_with(n, stem) /\ ends_with(n, ext)}

\* cleanup_old_rotated_logs(dir, stem, ext): sort the files taken by
\* modification time, remove all but the keep_count newest.
cleanup_old_rotated_logs(fs, stem, ext) ==
    LET rotated_files == RotatedFiles(fs, stem, ext)
        old == {n \in rotated_files :
                   Cardinality({m \in rotated_files :
                                  fs[m].mtime > fs[n].mtime}) >= max_rotated_files}
    IN  [n \in DOMAIN fs \ old |-> fs[n]]

\* rotate_log(log_path): rename with the timestamp of now, clean up.
rotate_log(fs, log_path, s) ==
    cleanup_old_rotated_logs(
        Rename(fs, log_path, RotatedName(file_stem(log_path), s)),
        file_stem(log_path), extension(log_path))

\* check_and_rotate(log_path)
check_and_rotate(fs, log_path, s) ==
    IF log_path \notin DOMAIN fs THEN fs
    ELSE IF fs[log_path].size >= max_file_size THEN rotate_log(fs, log_path, s)
    ELSE fs

\* OpenOptions::new().create(true).append(true) and writeln! of one entry
\* at time now.
AppendLine(fs, log_path, now) ==
    [n \in DOMAIN fs \cup {log_path} |->
        IF n = log_path
        THEN [size |-> (IF n \in DOMAIN fs THEN fs[n].size ELSE 0) + 1,
              mtime |-> now]
        ELSE fs[n]]

\* log_plugin(entry): the files after the call, unchanged when the entry
\* has no plugin id ("Log entry must have plugin_id").
log_plugin(fs, entry, s, now) ==
    IF entry.plugin = <<>> THEN fs
    ELSE AppendLine(check_and_rotate(fs, get_plugin_log_path(entry.plugin[1]), s),
                    get_plugin_log_path(entry.plugin[1]), now)

\* No stderr task has read anything yet.
NothingLogged ==
    [from |-> <<>>, piece |-> [json |-> FALSE, plugin |-> <<>>], ok |-> FALSE,
     path |-> <<>>, entry |-> [level |-> "none", plugin |-> <<>>]]

\* No lone scan has returned yet.
NotScanned == [done |-> FALSE, map |-> NothingDiscovered]

Ev(p, type, attempt, delay) ==
    [plugin |-> p, type |-> type, attempt |-> attempt, delay |-> delay]

\* Envelopes the host sends.
InitMsg == [message_type |-> "lifecycle", action |-> "init", request_id |-> 0]
ShutdownMsg == [message_type |-> "lifecycle", action |-> "shutdown", request_id |-> 0]
HttpMsg(r) == [message_type |-> "http", action |-> "none", request_id |-> r]
NoMsg == [message_type |-> "none", action |-> "none", request_id |-> 0]

\* --------------------------------------------------------------- frame codec
\* serde_json::to_vec of an envelope: a JSON object, so the first byte is '{'
\* (123) and the last '}' (125); the fields are abbreviated to one byte each.
TypeCode(m) == IF m.message_type = "lifecycle" THEN 1 ELSE 2
FieldCode(m) ==
    IF m.message_type = "lifecycle"
    THEN (IF m.action = "init" THEN 1 ELSE 2)
    ELSE m.request_id
to_json(m) == <<123, TypeCode(m), FieldCode(m), 125>>

\* serde_json::from_slice: the inverse of to_json on well-formed input.
from_json(b) ==
    IF Len(b) = 4 /\ b[1] = 123 /\ b[4] = 125 /\ b[2] \in {1, 2}
    THEN IF b[2] = 1
         THEN (IF b[3] = 1 THEN [ok |-> TRUE, msg |-> InitMsg]
               ELSE IF b[3] = 2 THEN [ok |-> TRUE, msg |-> ShutdownMsg]
               ELSE [ok |-> FALSE, msg |-> NoMsg])
         ELSE [ok |-> TRUE, msg |-> HttpMsg(b[3])]
    ELSE [ok |-> FALSE, msg |-> NoMsg]

\* u32::to_be_bytes / u32::from_be_bytes
to_be_bytes(n) ==
    <<(n \div 16777216) % 256, (n \div 65536) % 256, (n \div 256) % 256, n % 256>>
from_be_bytes(b) == b[1] * 16777216 + b[2] * 65536 + b[3] * 256 + b[4]

\* PluginProtocol::write_message: length prefix, then the JSON bytes.
write_message(m) == to_be_bytes(Len(to_json(m))) \o to_json(m)

\* send_init_message / send_shutdown_message: stream.write_all(json.as_bytes()).
write_raw_json(m) == to_json(m)

\* A size check that turns away the maximum itself.
exceeds_maximum_Mutant(length) == length >= MAX_MESSAGE_SIZE

\* if length > MAX_MESSAGE_SIZE { return Err(PluginError::Protocol(..)) }
exceeds_maximum(length) == length > MAX_MESSAGE_SIZE

\* read_message once the four header bytes are read, for a declared length,
\* a body that arrives whole or not, and what serde_json::from_slice makes of
\* it: the size check, then vec![0u8; length], read_exact, from_slice.
\* alloc is the size of the body buffer allocated, body what was read of it.
read_outcome(length, complete, decoded) ==
    LET input == [declared |-> length, complete |-> complete,
                  valid |-> decoded.ok] IN
    IF exceeds_maximum(length)
    THEN [input |-> input, ok |-> FALSE, err |-> "protocol", alloc |-> 0,
          body |-> "unread", msg |-> NoMsg]
    ELSE IF ~complete
    THEN [input |-> input, ok |-> FALSE, err |-> "io", alloc |-> length,
          body |-> "partial", msg |-> NoMsg]
    ELSE IF ~decoded.ok
    THEN [input |-> input, ok |-> FALSE, err |-> "json", alloc |-> length,
          body |-> "whole", msg |-> NoMsg]
    ELSE [input |-> input, ok |-> TRUE, err |-> "none", alloc |-> length,
          body |-> "whole", msg |-> decoded.msg]

\* No read_message call yet.
NoRead ==
    [input |-> [declared |-> 0, complete |-> FALSE, valid |-> FALSE],
     ok |-> FALSE, err |-> "none", alloc |-> 0, body |-> "unread", msg |-> NoMsg]

\* PluginProtocol::read_message on the bytes of one connection.
read_message(b) ==
    IF Len(b) < 4 THEN [ok |-> FALSE, msg |-> NoMsg]
    ELSE LET length == from_be_bytes(SubSeq(b, 1, 4))
             whole == Len(b) >= 4 + length
             o == read_outcome(length, whole,
                               IF whole /\ ~exceeds_maximum(length)
                               THEN from_json(SubSeq(b, 5, 4 + length))
                               ELSE [ok |-> FALSE, msg |-> NoMsg])
         IN  [ok |-> o.ok, msg |-> o.msg]

\* The envelopes a peer may write.
Envelopes == {InitMsg, ShutdownMsg} \cup {HttpMsg(r) : r \in ReqIds}

\* Lengths a frame header may declare, around the maximum.
DeclaredLengths ==
    {0, 4, MAX_MESSAGE_SIZE - 1, MAX_MESSAGE_SIZE, MAX_MESSAGE_SIZE + 1,
     2 * MAX_MESSAGE_SIZE, 2147483647}

\* ------------------------------------------------------------ plugin KV
KvKeys == {"k1", "k2"}
KvValues == {"v1", "v2"}
NoKvOp == [action |-> "none", plugin_id |-> "none", key |-> "none",
           value |-> "none"]

\* SELECT value FROM plugin_kv WHERE plugin_id = ?1 AND key = ?2, first row,
\* .ok(): None when there is no row.
plugin_kv_get(table, a, k) ==
    LET rows == {r \in table : r.plugin_id = a /\ r.key = k} IN
    IF rows = {} THEN "none" ELSE (CHOOSE r \in rows : TRUE).value

\* INSERT OR IGNORE: a row already there is kept.
plugin_kv_set_Mutant(table, a, k, v) ==
    IF \E r \in table : r.plugin_id = a /\ r.key = k
    THEN table
    ELSE table \cup {[plugin_id |-> a, key |-> k, value |-> v]}

\* INSERT OR REPLACE INTO plugin_kv (plugin_id, key, value), the table
\* having PRIMARY KEY (plugin_id, key): the row in conflict is deleted.
plugin_kv_set(table, a, k, v) ==
    {r \in table : ~(r.plugin_id = a /\ r.key = k)}
        \cup {[plugin_id |-> a, key |-> k, value |-> v]}

\* DELETE FROM plugin_kv WHERE key = ?2: every namespace.
plugin_kv_delete_Mutant(table, a, k) == {r \in table : r.key # k}

\* DELETE FROM plugin_kv WHERE plugin_id = ?1 AND key = ?2
plugin_kv_delete(table, a, k) ==
    {r \in table : ~(r.plugin_id = a /\ r.key = k)}

\* ------------------------------------------------------------ pure helpers
\* A counter that jumps by two.
increment_restart_count_Mutant(count) == count + 2

\* restart_counts.entry(id).or_insert(0) += 1
increment_restart_count(count) == count + 1

\* The threshold test off by one: disable only beyond max_restarts.
should_disable_plugin_Mutant(count) == count > max_restarts

\* get_restart_count(id) >= max_restarts
should_disable_plugin(count) == count >= max_restarts

Min(a, b) == IF a < b THEN a ELSE b
Pow2(n) == IF n = 0 THEN 1 ELSE IF n = 1 THEN 2 ELSE IF n = 2 THEN 4
           ELSE IF n = 3 THEN 8 ELSE 16

\* let backoff_exponent = restart_count.min(4); 2u64.pow(backoff_exponent) * 1000
backoff_delay_ms(restart_count) == Pow2(Min(restart_count, 4)) * 1000

\* is_plugin_enabled: a missing file or key means enabled.
is_plugin_enabled(p) == config[p] # "false"

\* A writer that starts from an empty map instead of the file's content.
set_plugin_enabled_Mutant(p, enabled) ==
    [q \in PluginIds |->
        IF q = p THEN (IF enabled THEN "true" ELSE "false") ELSE "absent"]

\* set_plugin_enabled: the file's map with config["plugins"][id] = enabled,
\* written back.
set_plugin_enabled(p, enabled) ==
    [config EXCEPT ![p] = IF enabled THEN "true" ELSE "false"]

\* scan_plugins_directory: every binary is found with its metadata.
scan_plugins_directory == binaries

\* get_plugin_for_route: the rows whose metadata declares the route; the
\* HashMap iteration returns the first one it meets.
get_plugin_for_route(route) ==
    {p \in PluginIds : plugins[p].present /\ plugins[p].metadata = route}

Alive(st) == st \in {"starting", "listening", "dying"}

\* Child processes spawned for p that have not exited.
LiveChildren(p) == orphans[p] + (IF Alive(cur[p]) THEN 1 ELSE 0)

\* libc::kill(pid, 0) == 0 for the pid in the row of p: the process is in the
\* process table, running, or exited and not waited for (the Child handle
\* that would reap it still sits in the row).
kill0(p) ==
    \/ Alive(cur[p])
    \/ cur[p] \in {"exited", "eof"} /\ plugins[p].process = "Some"

\* check_plugin_health(plugin_id): row, enabled flag, socket file, pid probe.
check_plugin_health(p) ==
    /\ plugins[p].present
    /\ plugins[p].enabled
    /\ sock[p]
    /\ plugins[p].pid = "Some"
    /\ kill0(p)

\* UnixStream::connect succeeds when the socket file exists and the process
\* that bound it is still listening.
CanConnect(p) == sock[p] /\ cur[p] = "listening"

\* ------------------------------------------------------------------- Init
\* The supervisor as PluginSupervisor::new leaves it; the enable map is the
\* file an earlier instance may have written.
InitSupervisor ==
    /\ plugins = [p \in PluginIds |-> NoRow]
    /\ restart_counts = [p \in PluginIds |-> 0]
    /\ config \in [PluginIds -> {"absent", "false"}]
    /\ cur = [p \in PluginIds |-> "none"]
    /\ orphans = [p \in PluginIds |-> 0]
    /\ inited = [p \in PluginIds |-> FALSE]
    /\ discovered = NotScanned
    /\ scanned = NotProbed
    /\ kv = {}
    /\ kvLast = NoKvOp
    /\ stream = <<>>
    /\ pending = <<>>
    /\ got = NoRead
    /\ sock = [p \in PluginIds |-> FALSE]
    /\ wire = <<>>
    /\ sentMsg = NoMsg
    /\ events = <<>>
    /\ files = <<>>
    /\ second = 0
    /\ mclock = 0
    /\ logged = NothingLogged
    /\ sinkDown = {}
    /\ fileLog = <<>>
    /\ eventTable = <<>>
    /\ lock = "none"
    /\ pc = [t \in Tasks |-> "idle"]
    /\ op = [t \in Tasks |-> "none"]
    /\ arg = [t \in Tasks |-> "none"]
    /\ rt = [t \in Tasks |-> "none"]
    /\ req = [t \in Tasks |-> 0]
    /\ resp = [t \in Tasks |-> 0]
    /\ result = [t \in Tasks |-> "none"]
    /\ todo = [t \in Tasks |-> {}]

\* The ids the binaries of a directory listing declare.
IdsOf(d) == {d[i].id : i \in 1..Len(d)}

\* One plugin binary on disk; the other id is known to callers only.
Init ==
    /\ dir = <<[path |-> "p.binary", id |-> "p", route |-> "/p"]>>
    /\ binaries = IdsOf(dir)
    /\ candidates = <<>>
    /\ InitSupervisor

\* Two plugin binaries on disk; the second declares a route of its choice,
\* which may be the route of the first.
InitTwo ==
    /\ \E r \in Routes :
           dir = <<[path |-> "p.binary", id |-> "p", route |-> "/p"],
                   [path |-> "q.binary", id |-> "q", route |-> r]>>
    /\ binaries = IdsOf(dir)
    /\ candidates = <<>>
    /\ InitSupervisor

\* One candidate whose probe exits with success and prints JSON: any
\* metadata.
InitProbe ==
    /\ dir = <<[path |-> "p.binary", id |-> "p", route |-> "/p"]>>
    /\ binaries = IdsOf(dir)
    /\ \E m \in Metadatas :
           candidates = <<Candidate("a.binary", TRUE, TRUE, TRUE, m)>>
    /\ InitSupervisor

\* Any listing of candidates, failing ones among them.
InitDiscover ==
    /\ dir = <<[path |-> "p.binary", id |-> "p", route |-> "/p"]>>
    /\ binaries = IdsOf(dir)
    /\ candidates \in CandidateListings
    /\ InitSupervisor

\* Any plugins directory, two binaries declaring the same id included.
InitScan ==
    /\ dir \in DirListings
    /\ binaries = IdsOf(dir)
    /\ candidates = <<>>
    /\ InitSupervisor

\* ----------------------------------------------------- notify_plugin_event
\* The rows the notify_plugin_event calls of a step were given: what the
\* step appended to events.
Emitted == SubSeq(events', Len(events) + 1, Len(events'))

\* Hook 1, SupervisorLogger::log_plugin_event: the rows are appended to the
\* supervisor log file, or the write fails and its Err is the result.
log_plugin_event(stored, rows) ==
    IF "file" \in sinkDown THEN stored ELSE stored \o rows

\* A notifier that returns at the first hook that fails.
plugin_event_log_Mutant(stored, rows) ==
    IF sinkDown # {} THEN stored ELSE stored \o rows

\* Hook 2, db::plugin_event_log: the rows are inserted into plugin_events,
\* or the insert fails and its Err is the result.
plugin_event_log(stored, rows) ==
    IF "table" \in sinkDown THEN stored ELSE stored \o rows

\* notify_plugin_event for the rows of a step: hook 1, then hook 2, the
\* result of each dropped (let _ =); nothing is returned.
notify_plugin_event ==
    /\ fileLog' = log_plugin_event(fileLog, Emitted)
    /\ eventTable' = plugin_event_log(eventTable, Emitted)
    /\ UNCHANGED sinkDown

\* A sink starts or stops failing (disk full, database locked, ...).
SinkFlip(s) ==
    /\ sinkDown' = IF s \in sinkDown THEN sinkDown \ {s} ELSE sinkDown \cup {s}
    /\ UNCHANGED <<fileLog, eventTable>>
    /\ UNCHANGED <<scanVars, dbVars, streamVars, supVars, procVars, lock, pc,
                   taskLocals, extraVars>>

\* ------------------------------------------------------------ task helpers
Idle(t) == pc[t] = "idle" /\ lock = "none"

\* Room for one more spawn for p within MaxOrphans.
CanSpawn(p) == Alive(cur[p]) => orphans[p] < MaxOrphans

\* The operation of task t is over with outcome r; the guard is still held.
Finish(t, r) ==
    /\ result' = [result EXCEPT ![t] = r]
    /\ pc' = [pc EXCEPT ![t] = "done"]

\* Task t takes the supervisor for operation o on plugin p.
Take(t, o, p) ==
    /\ lock' = t
    /\ op' = [op EXCEPT ![t] = o]
    /\ arg' = [arg EXCEPT ![t] = p]

\* ------------------------------------------------- environment: the plugins
\* The plugin binds its listening socket.
PluginBind(p) ==
    /\ UNCHANGED sideVars
    /\ cur[p] = "starting"
    /\ cur' = [cur EXCEPT ![p] = "listening"]
    /\ sock' = [sock EXCEPT ![p] = TRUE]
    /\ UNCHANGED <<plugins, restart_counts, config, orphans, inited, wire,
                   sentMsg, events, lock, pc, taskLocals>>
    /\ notify_plugin_event

\* The child last spawned for p exits: a crash, or the effect of the kill
\* signal. Its socket file stays behind.
PluginExit(p) ==
    /\ UNCHANGED sideVars
    /\ Alive(cur[p])
    /\ cur' = [cur EXCEPT ![p] = "exited"]
    /\ UNCHANGED <<supVars, orphans, inited, lock, pc, taskLocals>>
    /\ notify_plugin_event

\* A replaced child of p exits.
OrphanExit(p) ==
    /\ UNCHANGED sideVars
    /\ orphans[p] > 0
    /\ orphans' = [orphans EXCEPT ![p] = @ - 1]
    /\ UNCHANGED <<supVars, cur, inited, lock, pc, taskLocals>>
    /\ notify_plugin_event

\* The detached stderr task of spawn_plugin reads EOF and breaks out of its
\* loop; it touches nothing of the supervisor.
StderrEOF(p) ==
    /\ UNCHANGED sideVars
    /\ cur[p] = "exited"
    /\ cur' = [cur EXCEPT ![p] = "eof"]
    /\ UNCHANGED <<supVars, orphans, inited, lock, pc, taskLocals>>
    /\ notify_plugin_event

\* -------------------------------------------------- scan_plugins_directory
\* scan_plugins_directory called on its own: the map it returns.
ScanPluginsDirectory ==
    /\ ~discovered.done
    /\ discovered' = [done |-> TRUE, map |-> ScanEntries(dir, NothingDiscovered)]
    /\ UNCHANGED <<extraVars, sinkVars>>
    /\ UNCHANGED <<dir, binaries, dbVars, streamVars, supVars, procVars, lock,
                   pc, taskLocals>>

\* scan_plugins_directory over the candidates: it returns Ok(discovered)
\* whatever the candidates did.
ScanCandidates ==
    /\ ~scanned.done
    /\ scanned' = [done |-> TRUE, ok |-> TRUE, map |-> scan_loop(candidates, <<>>)]
    /\ UNCHANGED <<candidates, coreVars, logVars>>

\* ------------------------------------------------- stderr task, log files
\* The stderr task of plugin_id reads a piece of output, makes an entry of
\* it and calls log_plugin, whose result it drops.
StderrRead(plugin_id, piece) ==
    /\ mclock < MaxWrites
    /\ LET entry == EntryOf(plugin_id, piece) IN
       /\ files' = log_plugin(files, entry, second, mclock + 1)
       /\ logged' = [from |-> plugin_id, piece |-> piece,
                     ok |-> entry.plugin # <<>>,
                     path |-> IF entry.plugin = <<>> THEN <<>>
                              ELSE get_plugin_log_path(entry.plugin[1]),
                     entry |-> entry]
    /\ mclock' = mclock + 1
    /\ UNCHANGED <<second, probeVars, coreVars>>

\* A second goes by.
ClockTick ==
    /\ second < MaxSecond
    /\ second' = second + 1
    /\ UNCHANGED <<files, mclock, logged, probeVars, coreVars>>

\* ------------------------------------------------------------- KV handler
\* plugin_kv_handler, action "get".
KvGet(a, k) ==
    /\ kvLast' = [action |-> "get", plugin_id |-> a, key |-> k,
                  value |-> plugin_kv_get(kv, a, k)]
    /\ UNCHANGED <<extraVars, sinkVars>>
    /\ UNCHANGED <<kv, scanVars, streamVars, supVars, procVars, lock, pc,
                   taskLocals>>

\* plugin_kv_handler, action "set".
KvSet(a, k, v) ==
    /\ kv' = plugin_kv_set(kv, a, k, v)
    /\ kvLast' = [action |-> "set", plugin_id |-> a, key |-> k, value |-> v]
    /\ UNCHANGED <<extraVars, sinkVars>>
    /\ UNCHANGED <<scanVars, streamVars, supVars, procVars, lock, pc, taskLocals>>

\* plugin_kv_handler, action "delete".
KvDelete(a, k) ==
    /\ kv' = plugin_kv_delete(kv, a, k)
    /\ kvLast' = [action |-> "delete", plugin_id |-> a, key |-> k,
                  value |-> "none"]
    /\ UNCHANGED <<extraVars, sinkVars>>
    /\ UNCHANGED <<scanVars, streamVars, supVars, procVars, lock, pc, taskLocals>>

\* ------------------------------------------------------- protocol streams
\* write_message(stream, message) by the peer at one end.
WriteMessage(m) ==
    /\ Len(pending) < MaxFrames
    /\ Len(stream) + Len(write_message(m)) <= 8 * MaxFrames
    /\ stream' = stream \o write_message(m)
    /\ pending' = Append(pending, m)
    /\ UNCHANGED <<extraVars, sinkVars>>
    /\ UNCHANGED <<got, scanVars, dbVars, supVars, procVars, lock, pc, taskLocals>>

\* read_message(stream) at the other end, once the bytes it needs are there.
\* Each call wraps the stream in a BufReader of its own, whose fill takes
\* what the stream holds at that moment, up to 8 KiB, and which is dropped
\* when the call returns: n is the number of bytes it took in all.
ReadMessage(n) ==
    /\ Len(stream) >= 4
    /\ LET length == from_be_bytes(SubSeq(stream, 1, 4))
           needed == IF exceeds_maximum(length) THEN 4 ELSE 4 + length
       IN  /\ Len(stream) >= needed
           /\ n \in needed..Len(stream)
           /\ got' = read_outcome(length, TRUE,
                                  IF exceeds_maximum(length)
                                  THEN [ok |-> FALSE, msg |-> NoMsg]
                                  ELSE from_json(SubSeq(stream, 5, needed)))
    /\ stream' = SubSeq(stream, n + 1, Len(stream))
    /\ pending' = IF pending = <<>> THEN pending ELSE Tail(pending)
    /\ UNCHANGED <<extraVars, sinkVars>>
    /\ UNCHANGED <<scanVars, dbVars, supVars, procVars, lock, pc, taskLocals>>

\* read_message on a fresh stream whose peer sends a header declaring
\* length and then a body, whole or cut short, valid JSON or not.
ReadDeclared(length, complete, valid) ==
    /\ stream = <<>>
    /\ pending = <<>>
    /\ got' = read_outcome(length, complete, [ok |-> valid, msg |-> HttpMsg(1)])
    /\ UNCHANGED <<extraVars, sinkVars>>
    /\ UNCHANGED <<stream, pending, scanVars, dbVars, supVars, procVars, lock,
                   pc, taskLocals>>

\* ------------------------------------------------------ check_plugin_health
\* check_plugin_health(plugin_id) called by a task that has the supervisor.
CheckPluginHealth(t, p) ==
    /\ UNCHANGED sideVars
    /\ Idle(t)
    /\ Take(t, "health", p)
    /\ Finish(t, IF check_plugin_health(p) THEN "healthy" ELSE "unhealthy")
    /\ UNCHANGED <<supVars, procVars, rt, req, resp, todo>>
    /\ notify_plugin_event

\* ------------------------------------------------------ reset_restart_count
\* reset_restart_count(plugin_id) called on its own: restart_counts.remove.
ResetRestartCount(t, p) ==
    /\ UNCHANGED sideVars
    /\ Idle(t)
    /\ restart_counts' = [restart_counts EXCEPT ![p] = 0]
    /\ UNCHANGED <<plugins, config, sock, wire, sentMsg, events, procVars,
                   lock, pc, taskLocals>>
    /\ notify_plugin_event

\* ------------------------------------------------------------ spawn_plugin
\* The row spawn_plugin inserts for the new child.
SpawnedRow(meta) == NewRow(meta)

\* spawn_plugin(plugin_id, binary_path, metadata) as part of a step: remove
\* the socket file, start the process (ok: the OS did), insert the row over
\* the old one (whose Child handle is dropped, not killed), emit started.
\* evs is the event log of the operation so far.
spawn_plugin(p, meta, ok, evs) ==
    /\ sock' = [sock EXCEPT ![p] = FALSE]
    /\ IF ok
       THEN /\ cur' = [cur EXCEPT ![p] = "starting"]
            /\ orphans' = [orphans EXCEPT ![p] = IF Alive(cur[p]) THEN @ + 1 ELSE @]
            /\ inited' = [inited EXCEPT ![p] = FALSE]
            /\ plugins' = [plugins EXCEPT ![p] = SpawnedRow(meta)]
            /\ events' = Append(evs, Ev(p, "started", 0, 0))
       ELSE /\ events' = evs
            /\ UNCHANGED <<cur, orphans, inited, plugins>>

\* spawn_plugin called directly, with the path and metadata of a scan.
SpawnPlugin(t, p, ok) ==
    /\ UNCHANGED sideVars
    /\ Idle(t)
    /\ p \in binaries
    /\ CanSpawn(p)
    /\ Take(t, "spawn", p)
    /\ spawn_plugin(p, MetaRoute(p), ok, events)
    /\ Finish(t, IF ok THEN "ok" ELSE "err")
    /\ UNCHANGED <<restart_counts, config, wire, sentMsg, rt, req, resp, todo>>
    /\ notify_plugin_event

\* ------------------------------------------------------------- kill_plugin
\* A kill that leaves the enabled flag as it was.
KilledRow_Mutant(row) == row

\* The end of kill_plugin after the wait: the row is marked disabled; its
\* child handle was taken before the wait, its pid field is not touched.
KilledRow(row) == [row EXCEPT !.enabled = FALSE]

\* A disable that reports disabled ahead of the kill's own event.
KillEvents_Mutant(p, o, evs) ==
    IF o = "kill"
    THEN Append(evs, Ev(p, "killed", 0, 0))
    ELSE Append(Append(evs, Ev(p, "disabled", 0, 0)), Ev(p, "killed", 0, 0))

\* The events kill_plugin and its caller emit once the kill is through.
KillEvents(p, o, evs) ==
    IF o = "kill"
    THEN Append(evs, Ev(p, "killed", 0, 0))
    ELSE Append(Append(evs, Ev(p, "killed", 0, 0)), Ev(p, "disabled", 0, 0))

\* What the caller of kill_plugin returns after a successful kill:
\* restart_plugin_with_backoff returns Err("Plugin disabled after ...").
KillResult(o) == IF o = "restart" THEN "err" ELSE "ok"

\* kill_plugin(plugin_id) up to its wait, as part of operation o of task t;
\* evs is the event log of the operation so far.
kill_plugin(t, p, o, evs) ==
    IF ~plugins[p].present
    THEN \* .context("Plugin not found")?
         /\ events' = evs
         /\ Finish(t, "err")
         /\ UNCHANGED <<plugins, cur, sock>>
    ELSE IF plugins[p].process = "Some"
    THEN \* process.process.take(), start_kill, select! { wait, sleep(5s) }
         /\ plugins' = [plugins EXCEPT ![p].process = "None"]
         /\ cur' = [cur EXCEPT ![p] = IF Alive(@) THEN "dying" ELSE @]
         /\ events' = evs
         /\ pc' = [pc EXCEPT ![t] = "kill_wait"]
         /\ UNCHANGED <<sock, result>>
    ELSE \* no child handle: straight to the socket removal
         /\ plugins' = [plugins EXCEPT ![p] = KilledRow(@)]
         /\ sock' = [sock EXCEPT ![p] = FALSE]
         /\ events' = KillEvents(p, o, evs)
         /\ Finish(t, KillResult(o))
         /\ UNCHANGED cur

\* kill_plugin called directly.
KillPlugin(t, p) ==
    /\ UNCHANGED sideVars
    /\ Idle(t)
    /\ Take(t, "kill", p)
    /\ kill_plugin(t, p, "kill", events)
    /\ UNCHANGED <<restart_counts, config, orphans, inited, wire, sentMsg, rt,
                   req, resp, todo>>
    /\ notify_plugin_event

\* A wait for the child's exit with no timer beside it.
KillWaitDone_Mutant(t) ==
    /\ UNCHANGED sideVars
    /\ pc[t] = "kill_wait"
    /\ ~Alive(cur[arg[t]])
    /\ plugins' = [plugins EXCEPT ![arg[t]] = KilledRow(@)]
    /\ sock' = [sock EXCEPT ![arg[t]] = FALSE]
    /\ events' = KillEvents(arg[t], op[t], events)
    /\ Finish(t, KillResult(op[t]))
    /\ UNCHANGED <<restart_counts, config, procVars, wire, sentMsg, lock, op,
                   arg, rt, req, resp, todo>>
    /\ notify_plugin_event

\* The select! of kill_plugin completes: the child has exited, or the
\* 5-second timer fired first and the child handle is dropped with the
\* process still there. Then the rest of kill_plugin and of its caller.
KillWaitDone(t) ==
    /\ UNCHANGED sideVars
    /\ pc[t] = "kill_wait"
    /\ plugins' = [plugins EXCEPT ![arg[t]] = KilledRow(@)]
    /\ sock' = [sock EXCEPT ![arg[t]] = FALSE]
    /\ events' = KillEvents(arg[t], op[t], events)
    /\ Finish(t, KillResult(op[t]))
    /\ UNCHANGED <<restart_counts, config, procVars, wire, sentMsg, lock, op,
                   arg, rt, req, resp, todo>>
    /\ notify_plugin_event

\* The operation returns: the guard is dropped, the connection closed, the
\* task forgets its locals.
Release(t) ==
    /\ UNCHANGED sideVars
    /\ pc[t] = "done"
    /\ lock' = "none"
    /\ pc' = [pc EXCEPT ![t] = "idle"]
    /\ op' = [op EXCEPT ![t] = "none"]
    /\ arg' = [arg EXCEPT ![t] = "none"]
    /\ rt' = [rt EXCEPT ![t] = "none"]
    /\ req' = [req EXCEPT ![t] = 0]
    /\ resp' = [resp EXCEPT ![t] = 0]
    /\ result' = [result EXCEPT ![t] = "none"]
    /\ todo' = [todo EXCEPT ![t] = {}]
    /\ wire' = <<>>
    /\ sentMsg' = NoMsg
    /\ events' = <<>>
    /\ fileLog' = <<>>
    /\ eventTable' = <<>>
    /\ UNCHANGED <<plugins, restart_counts, config, sock, procVars, sinkDown>>

\* ----------------------------------------------------------- enable_plugin
\* enable_plugin without the re-scan for an id that has no row.
EnableSpawns_Mutant(p) ==
    IF plugins[p].present
    THEN (~plugins[p].enabled \/ plugins[p].process = "None")
         /\ plugins[p].metadata # "none"
    ELSE FALSE

\* Whether enable_plugin spawns: a row that is disabled or has no child
\* handle (and has metadata), or no row and the re-scan finds the id.
EnableSpawns(p) ==
    IF plugins[p].present
    THEN (~plugins[p].enabled \/ plugins[p].process = "None")
         /\ plugins[p].metadata # "none"
    ELSE p \in scan_plugins_directory

\* enable_plugin(plugin_id) up to its socket poll. h: the call comes through
\* the POST /:id/enable handler, which answers 404 for an id without a row.
\* ok: whether the OS starts the process, when a spawn is attempted.
EnablePlugin(t, p, h, ok) ==
    /\ UNCHANGED sideVars
    /\ Idle(t)
    /\ CanSpawn(p)
    /\ Take(t, "enable", p)
    /\ UNCHANGED <<restart_counts, wire, sentMsg, rt, req, resp, todo>>
    /\ IF h /\ ~plugins[p].present
       THEN /\ Finish(t, "404")
            /\ UNCHANGED <<config, plugins, procVars, sock, events>>
       ELSE /\ config' = set_plugin_enabled(p, TRUE)
            /\ IF EnableSpawns(p)
               THEN /\ spawn_plugin(p, IF plugins[p].present
                                       THEN plugins[p].metadata
                                       ELSE MetaRoute(p), ok, events)
                    /\ IF ok
                       THEN /\ pc' = [pc EXCEPT ![t] = "en_poll"]
                            /\ UNCHANGED result
                       ELSE Finish(t, "err")
               ELSE /\ plugins' = IF plugins[p].present
                                  THEN [plugins EXCEPT ![p].enabled = TRUE]
                                  ELSE plugins
                    /\ pc' = [pc EXCEPT ![t] = "en_poll"]
                    /\ UNCHANGED <<procVars, sock, events, result>>
    /\ notify_plugin_event

\* The socket poll of enable_plugin ends (the file appeared, or 20 x 100 ms
\* went by); the enabled event is emitted and Ok returned.
EnablePollDone(t) ==
    /\ UNCHANGED sideVars
    /\ pc[t] = "en_poll"
    /\ events' = Append(events, Ev(arg[t], "enabled", 0, 0))
    /\ Finish(t, "ok")
    /\ UNCHANGED <<plugins, restart_counts, config, procVars, sock, wire,
                   sentMsg, lock, op, arg, rt, req, resp, todo>>
    /\ notify_plugin_event

\* ---------------------------------------------------------- disable_plugin
\* disable_plugin(plugin_id): set_plugin_enabled(false), then kill_plugin.
\* h: through the POST /:id/disable handler (404 for an id without a row).
DisablePlugin(t, p, h) ==
    /\ UNCHANGED sideVars
    /\ Idle(t)
    /\ Take(t, "disable", p)
    /\ UNCHANGED <<restart_counts, orphans, inited, wire, sentMsg, rt, req, resp,
                   todo>>
    /\ IF h /\ ~plugins[p].present
       THEN /\ Finish(t, "404")
            /\ UNCHANGED <<config, plugins, cur, sock, events>>
       ELSE /\ config' = set_plugin_enabled(p, FALSE)
            /\ kill_plugin(t, p, "disable", events)
    /\ notify_plugin_event

\* -------------------------------------------------------------- initialize
\* initialize(): scan, then visit the discovered plugins in HashMap order.
Initialize(t) ==
    /\ UNCHANGED sideVars
    /\ Idle(t)
    /\ \A p \in PluginIds : CanSpawn(p)
    /\ lock' = t
    /\ op' = [op EXCEPT ![t] = "initialize"]
    /\ todo' = [todo EXCEPT ![t] = scan_plugins_directory]
    /\ pc' = [pc EXCEPT ![t] = "init_loop"]
    /\ UNCHANGED <<supVars, procVars, arg, rt, req, resp, result>>
    /\ notify_plugin_event

\* One iteration of the loop of initialize, up to send_init_message.
InitializeNext(t, ok) ==
    /\ UNCHANGED sideVars
    /\ pc[t] = "init_loop"
    /\ UNCHANGED <<restart_counts, config, wire, sentMsg, lock, op, rt, req, resp>>
    /\ IF todo[t] = {}
       THEN /\ Finish(t, "ok")
            /\ UNCHANGED <<plugins, procVars, sock, events, arg, todo>>
       ELSE \E p \in todo[t] :
            /\ todo' = [todo EXCEPT ![t] = @ \ {p}]
            /\ arg' = [arg EXCEPT ![t] = p]
            /\ UNCHANGED result
            /\ IF is_plugin_enabled(p)
               THEN /\ spawn_plugin(p, MetaRoute(p), ok, events)
                    /\ pc' = [pc EXCEPT ![t] = IF ok THEN "init_poll" ELSE "init_loop"]
               ELSE \* "Plugin is disabled, skipping"
                    UNCHANGED <<plugins, procVars, sock, events, pc>>
    /\ notify_plugin_event

\* send_init_message(plugin_id): wait for the socket file (10 x 100 ms),
\* connect, write the serialized init message with write_all. Its error is
\* logged by both callers and the operation goes on.
SendInitMessage(t) ==
    /\ UNCHANGED sideVars
    /\ pc[t] = "init_poll"
    /\ IF CanConnect(arg[t])
       THEN /\ wire' = write_raw_json(InitMsg)
            /\ sentMsg' = InitMsg
            /\ inited' = [inited EXCEPT ![arg[t]] = TRUE]
       ELSE UNCHANGED <<wire, sentMsg, inited>>
    /\ IF op[t] = "initialize"
       THEN /\ pc' = [pc EXCEPT ![t] = "init_loop"]
            /\ UNCHANGED result
       ELSE Finish(t, "ok")
    /\ UNCHANGED <<plugins, restart_counts, config, cur, orphans, sock, events,
                   lock, op, arg, rt, req, resp, todo>>
    /\ notify_plugin_event

\* --------------------------------------------- restart_plugin_with_backoff
\* restart_plugin_with_backoff(plugin_id, binary_path, metadata), called with
\* the path and metadata of a scan, up to the backoff sleep, or through the disable branch up to the wait of kill_plugin.
RestartPluginWithBackoff(t, p) ==
    /\ UNCHANGED sideVars
    /\ Idle(t)
    /\ p \in binaries
    /\ CanSpawn(p)
    /\ restart_counts[p] < max_restarts + MaxExtraCrashes
    /\ Take(t, "restart", p)
    /\ UNCHANGED <<orphans, inited, wire, sentMsg, rt, req, resp, todo>>
    /\ LET restart_count == increment_restart_count(restart_counts[p]) IN
       /\ restart_counts' = [restart_counts EXCEPT ![p] = restart_count]
       /\ IF should_disable_plugin(restart_count)
          THEN /\ config' = set_plugin_enabled(p, FALSE)
               /\ kill_plugin(t, p, "restart",
                              Append(events, Ev(p, "disabled_after_max_restarts",
                                                restart_count, 0)))
          ELSE /\ events' = Append(events, Ev(p, "restarting_with_backoff",
                                              restart_count,
                                              backoff_delay_ms(restart_count)))
               /\ pc' = [pc EXCEPT ![t] = "rs_sleep"]
               /\ UNCHANGED <<plugins, config, cur, sock, result>>
    /\ notify_plugin_event

\* The backoff sleep is over: spawn_plugin, then on to send_init_message.
RestartWake(t, ok) ==
    /\ UNCHANGED sideVars
    /\ pc[t] = "rs_sleep"
    /\ spawn_plugin(arg[t], MetaRoute(arg[t]), ok, events)
    /\ IF ok
       THEN /\ pc' = [pc EXCEPT ![t] = "init_poll"]
            /\ UNCHANGED result
       ELSE Finish(t, "err")
    /\ UNCHANGED <<restart_counts, config, wire, sentMsg, lock, op, arg, rt,
                   req, resp, todo>>
    /\ notify_plugin_event

\* ------------------------------------------------------- forward_to_plugin
\* A request for /route/<route> arrives; its handler has yet to get the lock.
ForwardRequest(t, route) ==
    /\ UNCHANGED sideVars
    /\ pc[t] = "idle"
    /\ pc' = [pc EXCEPT ![t] = "fwd_acquire"]
    /\ op' = [op EXCEPT ![t] = "forward"]
    /\ rt' = [rt EXCEPT ![t] = route]
    /\ UNCHANGED <<supVars, procVars, lock, arg, req, resp, result, todo>>
    /\ notify_plugin_event

\* The status forward_to_plugin gives its caller for an Err of
\* forward_http_request: map_err(|e| StatusCode::BAD_GATEWAY).
ForwardErrStatus == "502"

\* The checks of forward_http_request before it connects: the id has a
\* row, the row is enabled and the socket file exists.
ForwardChecks(p) == plugins[p].present /\ plugins[p].enabled /\ sock[p]

\* A forwarder that goes by the row alone and writes without a socket.
ForwardReady_Mutant(p) == plugins[p].present /\ plugins[p].enabled

\* forward_http_request gets as far as writing: its checks pass and the
\* connect succeeds.
ForwardReady(p) == ForwardChecks(p) /\ CanConnect(p)

\* forward_http_request(plugin_id, request) up to the read of the response,
\* as part of a step of task t; e is what the caller makes of its Err. At
\* fwd_wait the task holds the connection it opened.
forward_http_request(t, p, e) ==
    IF ~ForwardReady(p)
    THEN /\ Finish(t, e)
         /\ UNCHANGED <<wire, sentMsg, req>>
    ELSE \E r \in ReqIds :
         /\ req' = [req EXCEPT ![t] = r]
         /\ wire' = write_message(HttpMsg(r))
         /\ sentMsg' = HttpMsg(r)
         /\ pc' = [pc EXCEPT ![t] = "fwd_wait"]
         /\ UNCHANGED result

\* forward_http_request called on the supervisor with any id, not through
\* the route lookup.
ForwardHttpRequest(t, p) ==
    /\ UNCHANGED sideVars
    /\ Idle(t)
    /\ Take(t, "forward", p)
    /\ forward_http_request(t, p, "err")
    /\ UNCHANGED <<plugins, restart_counts, config, procVars, sock, events, rt,
                   resp, todo>>
    /\ notify_plugin_event

\* forward_to_plugin from lock().await to the read of the response:
\* route lookup, forward_http_request's checks, connect, write one frame.
ForwardDispatch(t) ==
    /\ UNCHANGED sideVars
    /\ pc[t] = "fwd_acquire"
    /\ lock = "none"
    /\ lock' = t
    /\ UNCHANGED <<plugins, restart_counts, config, procVars, sock, events, op,
                   rt, resp, todo>>
    /\ IF get_plugin_for_route(rt[t]) = {}
       THEN /\ Finish(t, "404")
            /\ UNCHANGED <<wire, sentMsg, arg, req>>
       ELSE \E p \in get_plugin_for_route(rt[t]) :
            /\ arg' = [arg EXCEPT ![t] = p]
            /\ forward_http_request(t, p, ForwardErrStatus)
    /\ notify_plugin_event

\* Whether forward_http_request takes a response frame carrying request_id r
\* for the request it sent with request_id sent: it never compares them.
AcceptsResponse(sent, r) == TRUE

\* The plugin that accepted the connection decodes the request and writes a
\* response frame with request_id r; the forwarder reads and translates it.
ForwardReply(t, r) ==
    /\ UNCHANGED sideVars
    /\ pc[t] = "fwd_wait"
    /\ cur[arg[t]] = "listening"
    /\ read_message(wire).ok
    /\ IF AcceptsResponse(req[t], r)
       THEN /\ resp' = [resp EXCEPT ![t] = r]
            /\ Finish(t, "200")
       ELSE /\ Finish(t, ForwardErrStatus)
            /\ UNCHANGED resp
    /\ UNCHANGED <<supVars, procVars, lock, op, arg, rt, req, todo>>
    /\ notify_plugin_event

\* A forwarder that kills the plugin whose response did not come.
ForwardTimeout_Mutant(t) ==
    /\ UNCHANGED sideVars
    /\ pc[t] = "fwd_wait"
    /\ Finish(t, ForwardErrStatus)
    /\ plugins' = [plugins EXCEPT ![arg[t]].process = "None"]
    /\ cur' = [cur EXCEPT ![arg[t]] = IF Alive(@) THEN "dying" ELSE @]
    /\ UNCHANGED <<restart_counts, config, sock, wire, sentMsg, events, orphans,
                   inited, lock, op, arg, rt, req, resp, todo>>
    /\ notify_plugin_event

\* No response frame within 30 s, or the read fails: an Err, mapped to 502.
ForwardTimeout(t) ==
    /\ UNCHANGED sideVars
    /\ pc[t] = "fwd_wait"
    /\ Finish(t, ForwardErrStatus)
    /\ UNCHANGED <<supVars, procVars, lock, op, arg, rt, req, resp, todo>>
    /\ notify_plugin_event

\* ------------------------------------------------------------ specification
Next ==
    \/ \E p \in PluginIds : PluginBind(p)
    \/ \E p \in PluginIds : PluginExit(p)
    \/ \E p \in PluginIds : OrphanExit(p)
    \/ \E p \in PluginIds : StderrEOF(p)
    \/ \E t \in Tasks, p \in PluginIds, ok \in BOOLEAN : SpawnPlugin(t, p, ok)
    \/ \E t \in Tasks, p \in PluginIds : KillPlugin(t, p)
    \/ \E t \in Tasks : KillWaitDone(t)
    \/ \E t \in Tasks, p \in PluginIds, h \in BOOLEAN, ok \in BOOLEAN :
           EnablePlugin(t, p, h, ok)
    \/ \E t \in Tasks : EnablePollDone(t)
    \/ \E t \in Tasks, p \in PluginIds, h \in BOOLEAN : DisablePlugin(t, p, h)
    \/ \E t \in Tasks : Initialize(t)
    \/ \E t \in Tasks, ok \in BOOLEAN : InitializeNext(t, ok)
    \/ \E t \in Tasks : SendInitMessage(t)
    \/ \E t \in Tasks, p \in PluginIds : RestartPluginWithBackoff(t, p)
    \/ \E t \in Tasks, ok \in BOOLEAN : RestartWake(t, ok)
    \/ \E t \in Tasks, p \in PluginIds : ResetRestartCount(t, p)
    \/ \E t \in Tasks, p \in PluginIds : CheckPluginHealth(t, p)
    \/ \E t \in Tasks, route \in Routes : ForwardRequest(t, route)
    \/ \E t \in Tasks : ForwardDispatch(t)
    \/ \E t \in Tasks, r \in ReqIds : ForwardReply(t, r)
    \/ \E t \in Tasks : ForwardTimeout(t)
    \/ \E t \in Tasks : Release(t)

Spec == Init /\ [][Next]_vars

\* The supervisor with plugins started only by initialize, enable_plugin and
\* restart_plugin_with_backoff (no caller uses spawn_plugin directly).
NextManaged ==
    \/ \E p \in PluginIds : PluginBind(p)
    \/ \E p \in PluginIds : PluginExit(p)
    \/ \E p \in PluginIds : OrphanExit(p)
    \/ \E p \in PluginIds : StderrEOF(p)
    \/ \E t \in Tasks, p \in PluginIds : KillPlugin(t, p)
    \/ \E t \in Tasks : KillWaitDone(t)
    \/ \E t \in Tasks, p \in PluginIds, h \in BOOLEAN, ok \in BOOLEAN :
           EnablePlugin(t, p, h, ok)
    \/ \E t \in Tasks : EnablePollDone(t)
    \/ \E t \in Tasks, p \in PluginIds, h \in BOOLEAN : DisablePlugin(t, p, h)
    \/ \E t \in Tasks : Initialize(t)
    \/ \E t \in Tasks, ok \in BOOLEAN : InitializeNext(t, ok)
    \/ \E t \in Tasks : SendInitMessage(t)
    \/ \E t \in Tasks, p \in PluginIds : RestartPluginWithBackoff(t, p)
    \/ \E t \in Tasks, ok \in BOOLEAN : RestartWake(t, ok)
    \/ \E t \in Tasks, p \in PluginIds : ResetRestartCount(t, p)
    \/ \E t \in Tasks, p \in PluginIds : CheckPluginHealth(t, p)
    \/ \E t \in Tasks, route \in Routes : ForwardRequest(t, route)
    \/ \E t \in Tasks : ForwardDispatch(t)
    \/ \E t \in Tasks, r \in ReqIds : ForwardReply(t, r)
    \/ \E t \in Tasks : ForwardTimeout(t)
    \/ \E t \in Tasks : Release(t)

SpecManaged == Init /\ [][NextManaged]_vars

\* The task runtime runs every task that can go on: timers fire, a free lock
\* is handed over, a returning handler drops its guard. Nothing obliges a
\* caller to start an operation or a plugin to bind, reply or exit.
TaskStep ==
    \/ \E p \in PluginIds : StderrEOF(p)
    \/ \E t \in Tasks : KillWaitDone(t)
    \/ \E t \in Tasks : EnablePollDone(t)
    \/ \E t \in Tasks, ok \in BOOLEAN : InitializeNext(t, ok)
    \/ \E t \in Tasks : SendInitMessage(t)
    \/ \E t \in Tasks, ok \in BOOLEAN : RestartWake(t, ok)
    \/ \E t \in Tasks : ForwardDispatch(t)
    \/ \E t \in Tasks : ForwardTimeout(t)
    \/ \E t \in Tasks : Release(t)

FairSpec == Init /\ [][Next]_vars /\ WF_vars(TaskStep)

\* Startup and request forwarding with two plugins on disk.
NextTwo ==
    \/ \E p \in PluginIds : PluginBind(p)
    \/ \E p \in PluginIds : PluginExit(p)
    \/ \E p \in PluginIds : StderrEOF(p)
    \/ \E t \in Tasks : Initialize(t)
    \/ \E t \in Tasks, ok \in BOOLEAN : InitializeNext(t, ok)
    \/ \E t \in Tasks : SendInitMessage(t)
    \/ \E t \in Tasks, p \in PluginIds, h \in BOOLEAN : DisablePlugin(t, p, h)
    \/ \E t \in Tasks : KillWaitDone(t)
    \/ \E t \in Tasks, route \in Routes : ForwardRequest(t, route)
    \/ \E t \in Tasks : ForwardDispatch(t)
    \/ \E t \in Tasks, r \in ReqIds : ForwardReply(t, r)
    \/ \E t \in Tasks : ForwardTimeout(t)
    \/ \E t \in Tasks : Release(t)

SpecTwo == InitTwo /\ [][NextTwo]_vars

\* A lone directory scan.
NextScan == ScanPluginsDirectory

SpecScan == InitScan /\ [][NextScan]_vars

\* The KV handler alone.
NextKv ==
    \/ \E a \in PluginIds, k \in KvKeys : KvGet(a, k)
    \/ \E a \in PluginIds, k \in KvKeys, v \in KvValues : KvSet(a, k, v)
    \/ \E a \in PluginIds, k \in KvKeys : KvDelete(a, k)

SpecKv == Init /\ [][NextKv]_vars

\* One protocol stream, a writer at one end and a reader at the other.
NextCodec ==
    \/ \E m \in Envelopes : WriteMessage(m)
    \/ \E n \in 0..(8 * MaxFrames) : ReadMessage(n)
    \/ \E length \in DeclaredLengths, complete \in BOOLEAN, valid \in BOOLEAN :
           ReadDeclared(length, complete, valid)

SpecCodec == Init /\ [][NextCodec]_vars

\* The metadata probe of one candidate.
NextProbe == ScanCandidates

SpecProbe == InitProbe /\ [][NextProbe]_vars

\* A scan of a directory with failing candidates.
NextDiscover == ScanCandidates

SpecDiscover == InitDiscover /\ [][NextDiscover]_vars

\* The lifecycle operations with sinks of notify_plugin_event that fail.
NextSinks ==
    \/ \E s \in {"file", "table"} : SinkFlip(s)
    \/ \E p \in PluginIds : PluginBind(p)
    \/ \E p \in PluginIds : PluginExit(p)
    \/ \E p \in PluginIds : OrphanExit(p)
    \/ \E t \in Tasks, p \in PluginIds, ok \in BOOLEAN : SpawnPlugin(t, p, ok)
    \/ \E t \in Tasks, p \in PluginIds : KillPlugin(t, p)
    \/ \E t \in Tasks : KillWaitDone(t)
    \/ \E t \in Tasks, p \in PluginIds, h \in BOOLEAN, ok \in BOOLEAN :
           EnablePlugin(t, p, h, ok)
    \/ \E t \in Tasks : EnablePollDone(t)
    \/ \E t \in Tasks, p \in PluginIds, h \in BOOLEAN : DisablePlugin(t, p, h)
    \/ \E t \in Tasks : SendInitMessage(t)
    \/ \E t \in Tasks, p \in PluginIds : RestartPluginWithBackoff(t, p)
    \/ \E t \in Tasks, ok \in BOOLEAN : RestartWake(t, ok)
    \/ \E t \in Tasks : Release(t)

SpecSinks == Init /\ [][NextSinks]_vars

\* The stderr tasks of the plugins and the log files they write.
NextLog ==
    \/ \E plugin_id \in LogIds, piece \in Pieces : StderrRead(plugin_id, piece)
    \/ ClockTick

SpecLog == Init /\ [][NextLog]_vars

\* The supervisor with forward_http_request also called directly.
NextDirect ==
    \/ Next
    \/ \E t \in Tasks, p \in PluginIds : ForwardHttpRequest(t, p)

SpecDirect == Init /\ [][NextDirect]_vars

TypeOK ==
    /\ \A p \in PluginIds : orphans[p] \in 0..MaxOrphans
    /\ \A p \in PluginIds : restart_counts[p] <= max_restarts + MaxExtraCrashes
    /\ lock \in Tasks \cup {"none"}

\* ================================================================= claims

CountType(evs, type) == Cardinality({i \in 1..Len(evs) : evs[i].type = type})

\* C1: for every plugin id, at most one child process spawned for that id is
\* alive, in every state reachable by any sequence of initialize, spawn,
\* enable, disable, kill and restart (a kill whose wait timed out included).
C1_AtMostOneLiveChild == \A p \in PluginIds : LiveChildren(p) <= 1

\* C2: no route resolves to a disabled plugin: a row with enabled = false is
\* not returned by the route lookup, and a request forwarded on its route is
\* answered 404 without being sent to the plugin.
C2_NoRouteToDisabled ==
    \A p \in PluginIds :
        (plugins[p].present /\ ~plugins[p].enabled) =>
            /\ p \notin get_plugin_for_route(plugins[p].metadata)
            /\ \A t \in Tasks :
                   (op[t] = "forward" /\ arg[t] = p /\ pc[t] \in {"fwd_wait", "done"})
                       => (pc[t] = "done" /\ result[t] = "404")

\* C3: while the enable state of a plugin is false (enable-map entry false,
\* registry row enabled = false) no step of an operation other than an
\* explicit enable (or a direct spawn_plugin call) gives it a child process:
\* initialize skips it and restart_plugin_with_backoff does not respawn it.
C3_NoSpawnWhileDisabled ==
    [][\A p \in PluginIds :
          (/\ config[p] = "false"
           /\ plugins[p].present
           /\ ~plugins[p].enabled
           /\ plugins'[p].process = "Some")
              => (lock' # "none" /\ op'[lock'] \in {"enable", "spawn"})]_vars

\* An enabled plugin whose process exited with no kill or disable requested:
\* the row still holds the child handle of the process that is gone.
Crashed(p) ==
    /\ plugins[p].present
    /\ plugins[p].enabled
    /\ plugins[p].process = "Some"
    /\ cur[p] \in {"exited", "eof"}

\* The crash-restart path has handled a crash of p: restarting_with_backoff
\* followed by a fresh started, or the disable at max_restarts.
Recovered(p) ==
    \E t \in Tasks :
        /\ op[t] = "restart"
        /\ arg[t] = p
        /\ \/ \E i, j \in 1..Len(events) :
                  /\ i < j
                  /\ events[i].type = "restarting_with_backoff"
                  /\ events[j].type = "started"
           \/ CountType(events, "disabled_after_max_restarts") > 0

\* C4: crash recovery is live: whenever the process of an enabled plugin
\* exits without a kill or disable having been requested, the supervisor
\* eventually emits restarting_with_backoff followed by a fresh started event
\* for it, or disables it because max_restarts was reached.
C4_CrashRecoveryLive == \A p \in PluginIds : Crashed(p) ~> Recovered(p)

\* C5: with max_restarts = N the crash-restart path disables a plugin on
\* exactly its N-th consecutive crash: while the counter is below N the call
\* emits restarting_with_backoff and goes on to sleep and respawn; from N on
\* it emits exactly one disabled_after_max_restarts event, sets the enable-map
\* entry to false, never sleeps or respawns, and ends with the plugin not
\* running (no child handle in its row).
C5_DisableAtMaxRestarts ==
    \A t \in Tasks :
        op[t] = "restart" =>
            LET p == arg[t]
                n == restart_counts[p]
            IN  IF n < max_restarts
                THEN /\ CountType(events, "disabled_after_max_restarts") = 0
                     /\ Len(events) >= 1
                     /\ events[1].type = "restarting_with_backoff"
                     /\ events[1].attempt = n
                     /\ pc[t] \in {"rs_sleep", "init_poll", "done"}
                ELSE /\ CountType(events, "disabled_after_max_restarts") = 1
                     /\ events[1].type = "disabled_after_max_restarts"
                     /\ CountType(events, "restarting_with_backoff") = 0
                     /\ CountType(events, "started") = 0
                     /\ config[p] = "false"
                     /\ pc[t] \in {"kill_wait", "done"}
                     /\ plugins[p].process = "None"
                     /\ pc[t] = "done" => ~plugins[p].enabled

\* C5 witness: the N-th crash of a plugin with a registry row has been
\* handled: disabled_after_max_restarts, killed, disabled.
C5_Witness ==
    \E t \in Tasks :
        /\ op[t] = "restart"
        /\ pc[t] = "done"
        /\ restart_counts[arg[t]] = max_restarts
        /\ Len(events) = 3
        /\ events[3].type = "disabled"

\* The delay the k-th consecutive crash is said to wait: 1000 ms doubled
\* for every crash after the first, at most 16000 ms.
ClaimedDelay(k) == Pow2(Min(k, 5) - 1) * 1000

\* C6: the restarting_with_backoff event of the k-th consecutive crash
\* carries a delay of 1000, 2000, 4000, 8000, 16000 ms for k = 1..5, and
\* never more than 16000 ms.
C6_BackoffSchedule ==
    \A i \in 1..Len(events) :
        events[i].type = "restarting_with_backoff" =>
            /\ events[i].delay = ClaimedDelay(events[i].attempt)
            /\ events[i].delay <= 16000

\* C7: timeout isolation: while a request forwarded to plugin p waits for
\* its response, a request for the route of a different plugin q that is
\* enabled and reachable can be dispatched at once.
C7_TimeoutIsolation ==
    \A t, u \in Tasks :
        (/\ pc[t] = "fwd_wait"
         /\ pc[u] = "fwd_acquire"
         /\ \E q \in get_plugin_for_route(rt[u]) : q # arg[t] /\ ForwardReady(q))
            => ENABLED ForwardDispatch(u)

\* The positions where an operation is suspended on I/O with a child, on a
\* wait for one, or on the backoff sleep.
SuspensionPoints == {"fwd_wait", "en_poll", "init_poll", "kill_wait", "rs_sleep"}

\* C8: the supervisor lock is never held across a suspension point that does
\* I/O with a child or waits on one.
C8_NoLockAcrossSuspension ==
    \A t \in Tasks : pc[t] \in SuspensionPoints => lock # t

\* C9: every response the forwarder accepts and translates carries the
\* request_id it assigned to the request.
C9_ResponseIdMatches ==
    \A t \in Tasks :
        (op[t] = "forward" /\ pc[t] = "done" /\ result[t] = "200")
            => resp[t] = req[t]

\* C10: every message the host writes to a plugin socket is one frame, a
\* 4-byte big-endian length prefix followed by exactly that many bytes of
\* JSON, which the plugin's read_message decodes to the envelope sent.
C10_HostWritesFrames ==
    sentMsg # NoMsg =>
        /\ Len(wire) >= 4
        /\ from_be_bytes(SubSeq(wire, 1, 4)) = Len(wire) - 4
        /\ read_message(wire) = [ok |-> TRUE, msg |-> sentMsg]

\* C11: the lifecycle of one plugin is ordered spawn, init, requests, kill:
\* a request is forwarded only to a live process of an enabled plugin to
\* which the host has sent its lifecycle init message, and never to a
\* process that was killed.
C11_LifecycleOrder ==
    [][\A t \in Tasks :
          (pc[t] = "fwd_acquire" /\ pc'[t] = "fwd_wait")
              => LET p == arg'[t] IN
                 /\ inited[p]
                 /\ plugins[p].enabled
                 /\ cur[p] \notin {"dying", "exited", "eof"}]_vars

\* The state enable(p); disable(p) leaves when p had no other children: a
\* disabled row without child handle, the enable map false.
AfterDisable(p) ==
    /\ plugins[p].present
    /\ ~plugins[p].enabled
    /\ plugins[p].process = "None"
    /\ config[p] = "false"
    /\ orphans[p] = 0

\* Task t enters enable_plugin(p) in this step and the process start, if
\* one is attempted, succeeds.
EnableStep(t, p) ==
    /\ op[t] = "none"
    /\ op'[t] = "enable"
    /\ arg'[t] = p
    /\ ~(pc'[t] = "done" /\ result'[t] \in {"err", "404"})

\* C12: enable(p); disable(p); enable(p) ends with the plugin running: the
\* second enable leaves the row enabled with a child handle, the enable map
\* true, and exactly one live child of p.
C12_EnableDisableEnable ==
    [][\A t \in Tasks, p \in PluginIds :
          (AfterDisable(p) /\ EnableStep(t, p))
              => /\ plugins'[p].enabled
                 /\ plugins'[p].process = "Some"
                 /\ config'[p] = "true"
                 /\ orphans'[p] + (IF Alive(cur'[p]) THEN 1 ELSE 0) = 1]_vars

C14_EnableResetsCounter ==
    \A t \in Tasks :
        (op[t] = "enable" /\ pc[t] = "done" /\ result[t] = "ok")
            => restart_counts[arg[t]] = 0

\* C15: the restart counter of a plugin changes only in two ways: a call of
\* restart_plugin_with_backoff adds exactly 1 on entry, an explicit reset
\* sets it to 0. The sleep, respawn and init of a restart, the disable at
\* max_restarts and every other operation leave it as it is.
C15_CounterMonotone ==
    [][\A p \in PluginIds :
          IF \E t \in Tasks : op[t] = "none" /\ op'[t] = "restart" /\ arg'[t] = p
          THEN restart_counts'[p] = restart_counts[p] + 1
          ELSE IF \E t \in Tasks : ResetRestartCount(t, p)
          THEN restart_counts'[p] = 0
          ELSE restart_counts'[p] = restart_counts[p]]_vars

\* C15 witness: a restart below the threshold has respawned the plugin and
\* sent it init, the counter still at the value the crash gave it.
C15_Witness ==
    \E t \in Tasks :
        /\ op[t] = "restart"
        /\ pc[t] = "done"
        /\ result[t] = "ok"
        /\ inited[arg[t]]
        /\ restart_counts[arg[t]] = 1

\* C16: a registry row is created on discovery: when initialize has returned
\* every discovered plugin has a row, whatever its enable-map entry, so the
\* POST enable handler finds it.
C16_RowOnDiscovery ==
    \A t \in Tasks :
        (op[t] = "initialize" /\ pc[t] = "done")
            => \A p \in scan_plugins_directory : plugins[p].present

\* C17: at most one plugin owns a route: no two registry rows carry
\* metadata with the same route.
C17_UniqueRoutes ==
    \A p, q \in PluginIds :
        (plugins[p].present /\ plugins[q].present /\ p # q)
            => plugins[p].metadata # plugins[q].metadata

\* The first entry of a listing that declares id p.
FirstEntry(d, p) ==
    IF p \in IdsOf(d)
    THEN d[CHOOSE i \in 1..Len(d) :
               d[i].id = p /\ \A j \in 1..(i - 1) : d[j].id # p]
    ELSE NoEntry

\* C18: when a scan meets two binaries declaring the same id the first one
\* discovered is kept: the scan result for an id holds the path and metadata
\* of the first entry that declares it.
C18_FirstDuplicateKept ==
    discovered.done =>
        \A p \in PluginIds : discovered.map[p] = FirstEntry(dir, p)

\* C19: a forwarded request that fails affects only that request: the step
\* in which the forwarder gives up (no response in 30 s, a read or protocol
\* error, no connection) leaves the registry rows, the restart counters, the
\* enable map, the socket files and the processes as they were.
C19_ForwardFailureFrame ==
    [][\A t \in Tasks :
          (/\ op[t] = "forward"
           /\ pc[t] \in {"fwd_acquire", "fwd_wait"}
           /\ pc'[t] = "done"
           /\ result'[t] = ForwardErrStatus)
              => UNCHANGED <<plugins, restart_counts, config, sock, cur, orphans>>]_vars

\* C19 witness: a request written to a running plugin has failed and the
\* plugin is still enabled, with its child handle, and listening.
C19_Witness ==
    \E t \in Tasks :
        /\ op[t] = "forward"
        /\ pc[t] = "done"
        /\ result[t] = ForwardErrStatus
        /\ sentMsg = HttpMsg(req[t])
        /\ plugins[arg[t]].enabled
        /\ plugins[arg[t]].process = "Some"
        /\ cur[arg[t]] = "listening"

\* C20: when the plugin accepted a forwarded request and no response came
\* within the 30 s deadline, the caller of the route receives status 504.
C20_TimeoutIs504 ==
    [][\A t \in Tasks : ForwardTimeout(t) => result'[t] = "504"]_vars

\* A KV operation was carried out in this step.
KvStep == kvLast' # kvLast \/ kv' # kv

\* C21: within one plugin namespace the KV store is a map: a key never set
\* reads none; right after set(k, v) a get of k returns v, also when k held
\* another value before; right after delete(k) it returns none; a get
\* changes nothing; and an operation on k leaves what get returns for the
\* other keys of the namespace as it was.
C21_KvIsMap ==
    /\ \A a \in PluginIds, k \in KvKeys : plugin_kv_get(kv, a, k) = "none"
    /\ [][KvStep =>
            LET o == kvLast' IN
            /\ o.action = "set" => plugin_kv_get(kv', o.plugin_id, o.key) = o.value
            /\ o.action = "delete" => plugin_kv_get(kv', o.plugin_id, o.key) = "none"
            /\ o.action = "get" =>
                   /\ kv' = kv
                   /\ o.value = plugin_kv_get(kv, o.plugin_id, o.key)
            /\ \A k \in KvKeys \ {o.key} :
                   plugin_kv_get(kv', o.plugin_id, k) = plugin_kv_get(kv, o.plugin_id, k)]_vars

\* C21 witness: a get returned the second value written under a key while
\* the namespace holds another key as well.
C21_Witness ==
    /\ kvLast.action = "get"
    /\ kvLast.value = "v2"
    /\ \E r \in kv : r.plugin_id = kvLast.plugin_id /\ r.key # kvLast.key

\* The rows of one plugin.
NamespaceOf(table, a) == {r \in table : r.plugin_id = a}

\* C22: KV namespaces are isolated: an operation issued for plugin a leaves
\* the rows of every other plugin b, and so every get for b, unchanged, and
\* what a get for a returns is determined by the rows of a alone.
C22_KvIsolation ==
    [][KvStep =>
          LET o == kvLast' IN
          /\ \A b \in PluginIds \ {o.plugin_id} :
                 /\ NamespaceOf(kv', b) = NamespaceOf(kv, b)
                 /\ \A k \in KvKeys : plugin_kv_get(kv', b, k) = plugin_kv_get(kv, b, k)
          /\ o.action = "get" =>
                 o.value = plugin_kv_get(NamespaceOf(kv, o.plugin_id),
                                         o.plugin_id, o.key)]_vars

\* C22 witness: a key was deleted in one namespace while another namespace
\* holds a value under the same key.
C22_Witness ==
    /\ kvLast.action = "delete"
    /\ \E b \in PluginIds \ {kvLast.plugin_id} :
           plugin_kv_get(kv, b, kvLast.key) # "none"

\* C23: is_plugin_enabled(p) is true when nothing was written for p, and
\* otherwise the value last written for p: an enable or disable makes it
\* that value, the disable of a restart at max_restarts makes it false,
\* nothing else changes the entry of p, and a write for p leaves the entry
\* of every other id as it was.
C23_EnableMapLastWrite ==
    [][\A p \in PluginIds :
          /\ config[p] = "absent" => is_plugin_enabled(p)
          /\ \A t \in Tasks :
                (/\ op[t] = "none"
                 /\ op'[t] \in {"enable", "disable"}
                 /\ arg'[t] = p
                 /\ ~(pc'[t] = "done" /\ result'[t] = "404"))
                    => /\ is_plugin_enabled(p)' = (op'[t] = "enable")
                       /\ \A q \in PluginIds \ {p} : config'[q] = config[q]
          /\ config'[p] # config[p] =>
                \E t \in Tasks :
                    /\ op[t] = "none"
                    /\ arg'[t] = p
                    /\ \/ op'[t] \in {"enable", "disable"}
                       \/ /\ op'[t] = "restart"
                          /\ ~is_plugin_enabled(p)'
                          /\ \A q \in PluginIds \ {p} : config'[q] = config[q]]_vars

\* C23 witness: p was enabled while the map held false for q, and still does.
C23_Witness ==
    \E t \in Tasks :
        /\ op[t] = "enable"
        /\ pc[t] = "done"
        /\ config[arg[t]] = "true"
        /\ \E q \in PluginIds \ {arg[t]} : config[q] = "false"

C25_RoundTripInOrder ==
    /\ \A m \in Envelopes :
           read_message(write_message(m)) = [ok |-> TRUE, msg |-> m]
    /\ [][(Len(stream') < Len(stream) /\ pending # <<>>) =>
              /\ got'.ok
              /\ got'.msg = Head(pending)
              /\ stream' = SubSeq(stream, Len(write_message(Head(pending))) + 1,
                                  Len(stream))]_vars

\* C26: check_plugin_health reports healthy only a plugin whose row is
\* enabled and holds a child handle, whose socket file exists and whose
\* process is alive.
C26_HealthyOnlyIfRunning ==
    \A t \in Tasks :
        (op[t] = "health" /\ pc[t] = "done" /\ result[t] = "healthy")
            => /\ plugins[arg[t]].present
               /\ plugins[arg[t]].enabled
               /\ plugins[arg[t]].process = "Some"
               /\ sock[arg[t]]
               /\ Alive(cur[arg[t]])

\* C27: when the OS refuses to start the process, spawn_plugin returns an
\* error, emits spawn_failed and no started, and the plugin is in the
\* registry without child handle.
C27_SpawnFailure ==
    \A t \in Tasks :
        (op[t] = "spawn" /\ pc[t] = "done" /\ result[t] = "err")
            => /\ CountType(events, "spawn_failed") = 1
               /\ CountType(events, "started") = 0
               /\ plugins[arg[t]].present
               /\ plugins[arg[t]].process = "None"

\* C28: when kill_plugin has returned success the row has no child handle
\* and enabled = false, the socket file is gone and one killed event was
\* emitted, whether the child exited or the 5-second wait timed out.
C28_KillPostState ==
    \A t \in Tasks :
        (op[t] = "kill" /\ pc[t] = "done" /\ result[t] = "ok")
            => /\ plugins[arg[t]].process = "None"
               /\ ~plugins[arg[t]].enabled
               /\ ~sock[arg[t]]
               /\ CountType(events, "killed") = 1

\* C28 witness: kill_plugin has returned after its wait timed out, the
\* child still there.
C28_Witness ==
    \E t \in Tasks :
        /\ op[t] = "kill"
        /\ pc[t] = "done"
        /\ result[t] = "ok"
        /\ cur[arg[t]] = "dying"

\* C29: whenever no operation is in progress, the pid of a row is present
\* exactly when its child handle is.
C29_PidWithHandle ==
    lock = "none" =>
        \A p \in PluginIds :
            plugins[p].present =>
                (plugins[p].pid = "Some" <=> plugins[p].process = "Some")

\* C30: kill_plugin terminates: once the kill signal is sent, the wait ends
\* with the child's exit or the 5-second timer, and the kill is completed
\* (no child handle, row disabled, killed emitted) even if the child never
\* exits.
C30_KillTerminates ==
    \A t \in Tasks :
        (pc[t] = "kill_wait")
            ~> (/\ pc[t] = "done"
                /\ op[t] \in {"kill", "disable", "restart"}
                /\ plugins[arg[t]].process = "None"
                /\ ~plugins[arg[t]].enabled
                /\ CountType(events, "killed") = 1)

\* C30 witness: a disable has gone through its kill with the child alive.
C30_Witness ==
    \E t \in Tasks :
        /\ op[t] = "disable"
        /\ pc[t] = "done"
        /\ Alive(cur[arg[t]])
        /\ CountType(events, "killed") = 1

\* The types of the events in evs, in order.
RECURSIVE TypesOf(_)
TypesOf(evs) ==
    IF evs = <<>> THEN <<>> ELSE <<Head(evs).type>> \o TypesOf(Tail(evs))

\* C31: disable_plugin on an id that has a row writes false to the enable
\* map before the kill (the map already reads false while the kill waits
\* for the child), then kills and emits killed and then disabled; when it
\* has returned the row is still there with the metadata it had, enabled =
\* false and no child handle. No step of any operation removes a row.
C31_DisableKeepsRow ==
    [][/\ \A p \in PluginIds : plugins[p].present => plugins'[p].present
       /\ \A t \in Tasks :
            (op'[t] = "disable" /\ plugins[arg'[t]].present)
                => /\ plugins'[arg'[t]].metadata = plugins[arg'[t]].metadata
                   /\ pc'[t] = "kill_wait"
                        => /\ config'[arg'[t]] = "false"
                           /\ CountType(events', "killed") = 0
                   /\ (pc'[t] = "done" /\ pc[t] # "done" /\ result'[t] = "ok")
                        => /\ config'[arg'[t]] = "false"
                           /\ TypesOf(events') = <<"killed", "disabled">>
                           /\ plugins'[arg'[t]].present
                           /\ ~plugins'[arg'[t]].enabled
                           /\ plugins'[arg'[t]].process = "None"]_vars

\* C31 witness: a disable of a plugin with a running child has returned;
\* the row is there, disabled, with its metadata, and both events are out.
C31_Witness ==
    \E t \in Tasks :
        /\ op[t] = "disable"
        /\ pc[t] = "done"
        /\ result[t] = "ok"
        /\ cur[arg[t]] \in {"dying", "exited", "eof"}
        /\ plugins[arg[t]].present
        /\ plugins[arg[t]].metadata # "none"
        /\ TypesOf(events) = <<"killed", "disabled">>

\* C32: forward_http_request(id, ..) returns an error, with no connection
\* opened and no frame written, whenever id has no row, the row is not
\* enabled or the socket file is missing; it opens a connection and writes
\* the request only when the row is enabled and the socket file exists.
C32_ForwardChecksFirst ==
    [][\A t \in Tasks, p \in PluginIds :
          (/\ op'[t] = "forward"
           /\ arg'[t] = p
           /\ pc[t] \in {"idle", "fwd_acquire"}
           /\ pc'[t] \in {"fwd_wait", "done"})
              => /\ ~ForwardChecks(p)
                      => /\ pc'[t] = "done"
                         /\ result'[t] \in {"err", ForwardErrStatus}
                         /\ wire' = <<>>
                         /\ sentMsg' = NoMsg
                 /\ (pc'[t] = "fwd_wait" \/ wire' # <<>> \/ sentMsg' # NoMsg)
                      => /\ plugins[p].present
                         /\ plugins[p].enabled
                         /\ sock[p]]_vars

\* C32 witness: forward_http_request on an id without a row has returned
\* its error and nothing was written.
C32_Witness ==
    \E t \in Tasks :
        /\ op[t] = "forward"
        /\ pc[t] = "done"
        /\ result[t] = "err"
        /\ ~plugins[arg[t]].present
        /\ wire = <<>>

\* C33: a plugin enters the scan result only if its metadata id is
\* non-empty and made of ASCII alphanumerics and hyphens, its route begins
\* with / and holds no .., and its name, version and author (when there is
\* one) are each at most 100 long.
C33_ProbeValidation ==
    scanned.done =>
        \A id \in DOMAIN scanned.map :
            LET m == scanned.map[id].metadata IN
            /\ m.id # <<>>
            /\ \A i \in 1..Len(m.id) :
                   is_ascii_alphanumeric(m.id[i]) \/ m.id[i] = "-"
            /\ starts_with(m.route, <<"/">>)
            /\ ~contains(m.route, <<".", ".">>)
            /\ m.name <= 100
            /\ m.version <= 100
            /\ m.author # <<>> => m.author[1] <= 100

\* The candidates of a listing that discovery takes: the path resolves
\* inside the plugins directory and the probe gives valid metadata.
ValidCandidates(cs) ==
    {cs[i] : i \in {j \in 1..Len(cs) :
                       cs[j].inside /\ read_plugin_metadata(cs[j]).ok}}

\* C34: a candidate that fails discovery (its path resolves outside the
\* plugins directory, its probe exits non-zero, prints invalid JSON or
\* metadata with an invalid field) is skipped and the scan goes on: in
\* whatever order the entries are visited the scan returns Ok and its
\* result holds the ids of the valid candidates and no other, each with
\* the path and metadata of a valid candidate declaring it.
C34_FailuresSkipped ==
    scanned.done =>
        /\ scanned.ok
        /\ DOMAIN scanned.map =
               {c.metadata.id : c \in ValidCandidates(candidates)}
        /\ \A id \in DOMAIN scanned.map :
               \E c \in ValidCandidates(candidates) :
                   /\ c.metadata.id = id
                   /\ scanned.map[id] = [path |-> c.path, metadata |-> c.metadata]

\* C34 witness: a scan has returned for a directory whose first entry
\* fails its probe and whose second is valid, and the result is the
\* second.
C34_Witness ==
    /\ scanned.done
    /\ Len(candidates) = 2
    /\ candidates[1].inside
    /\ ~candidates[1].exit0
    /\ candidates[2] \in ValidCandidates(candidates)
    /\ DOMAIN scanned.map = {candidates[2].metadata.id}

\* C35: notify_plugin_event is best effort. A sink that fails leaves the
\* other sink its rows (each sink stores what the step emitted unless it
\* is the one failing), and nothing comes back to the operation: a spawn
\* that emitted started has its row and goes on, a kill, disable or
\* restart that emitted killed or disabled has returned what it returns
\* with working sinks with the row killed, an enable that emitted enabled
\* has returned Ok, a restart that announced its backoff sleeps, one that
\* announced the disabling is in the kill (or has failed for want of a row).
C35_NotifyBestEffort ==
    [][Len(events') > Len(events) =>
          LET t == lock'
              p == arg'[lock']
              last == events'[Len(events')].type
          IN  /\ fileLog' = IF "file" \in sinkDown
                            THEN fileLog ELSE fileLog \o Emitted
              /\ eventTable' = IF "table" \in sinkDown
                               THEN eventTable ELSE eventTable \o Emitted
              /\ last = "started"
                   => /\ plugins'[p].present
                      /\ plugins'[p].enabled
                      /\ plugins'[p].process = "Some"
                      /\ pc'[t] \in {"done", "en_poll", "init_poll"}
                      /\ pc'[t] = "done" => result'[t] = "ok"
              /\ last \in {"killed", "disabled"}
                   => /\ pc'[t] = "done"
                      /\ result'[t] = (IF op'[t] = "restart" THEN "err" ELSE "ok")
                      /\ ~plugins'[p].enabled
                      /\ plugins'[p].process = "None"
              /\ last = "enabled" => pc'[t] = "done" /\ result'[t] = "ok"
              /\ last = "restarting_with_backoff" => pc'[t] = "rs_sleep"
              /\ last = "disabled_after_max_restarts"
                   => \/ pc'[t] = "kill_wait"
                      \/ /\ ~plugins[p].present
                         /\ pc'[t] = "done"
                         /\ result'[t] = "err"]_vars

\* C35 witness: an enable has returned Ok with its started and enabled
\* rows in the plugin_events table and neither in the supervisor log,
\* whose writes failed.
C35_Witness ==
    \E t \in Tasks :
        /\ op[t] = "enable"
        /\ pc[t] = "done"
        /\ result[t] = "ok"
        /\ "file" \in sinkDown
        /\ TypesOf(events) = <<"started", "enabled">>
        /\ fileLog = <<>>
        /\ eventTable = events

\* The rotated logs of plugin id among the files fs.
Siblings(fs, id) ==
    {n \in DOMAIN fs : \E s \in 0..MaxSecond : n = RotatedName(id, s)}

\* C36: on every plugin log write, a current file of size max_file_size
\* or more is renamed with the timestamp suffix and the entry starts a
\* fresh file (otherwise the entry is appended to the current file); after
\* every write each plugin has at most max_rotated_files rotated logs, and
\* the rotated logs of the plugin that the write removed are older than
\* all the rotated logs it kept.
C36_RotateAndPrune ==
    [][(mclock' # mclock /\ logged'.ok) =>
          LET path == logged'.path
              id == logged'.entry.plugin[1]
              rotated == RotatedName(id, second)
              gone == {n \in Siblings(files, id) :
                          n \notin DOMAIN files' \/ files'[n] # files[n]}
          IN  /\ IF path \in DOMAIN files /\ files[path].size >= max_file_size
                 THEN /\ files'[path] = [size |-> 1, mtime |-> mclock']
                      /\ rotated \in DOMAIN files' => files'[rotated] = files[path]
                 ELSE /\ files'[path].size =
                            (IF path \in DOMAIN files THEN files[path].size ELSE 0) + 1
                      /\ gone = {}
              /\ \A a \in LogIds :
                     Cardinality(Siblings(files', a)) <= max_rotated_files
              /\ \A n \in gone :
                     \A m \in Siblings(files', id) \ gone :
                         files[n].mtime < files'[m].mtime]_vars

\* C37: what plugin p writes to stderr is appended to the log file of p
\* and of no other plugin: the piece is stored there as the entry it parses
\* to, or wrapped as an Info entry tagged with p; it is not dropped, and
\* not written to the log of a plugin the output names.
C37_StderrToOwnLog ==
    [][mclock' # mclock =>
          LET p == logged'.from
              own == get_plugin_log_path(logged'.from)
          IN  /\ logged'.ok
              /\ logged'.path = own
              /\ own \in DOMAIN files'
              /\ files'[own].mtime = mclock'
              /\ IF logged'.piece.json
                 THEN logged'.entry = [level |-> "parsed",
                                       plugin |-> logged'.piece.plugin]
                 ELSE logged'.entry = [level |-> "Info", plugin |-> <<p>>]
              /\ \A b \in LogIds \ {p} :
                     get_plugin_log_path(b) \in DOMAIN files'
                         => files'[get_plugin_log_path(b)].mtime # mclock']_vars

\* The current log file of plugin id and the names of its rotated logs.
LogFilesOf(id) ==
    {get_plugin_log_path(id)} \cup {RotatedName(id, s) : s \in 0..MaxSecond}

\* C40: a write to the log of plugin a, with the rotation and pruning it
\* does, leaves the current log file and the rotated logs of every other
\* plugin b as they were, also when the id of b begins with the id of a.
C40_OtherLogsUntouched ==
    [][(mclock' # mclock /\ logged'.ok) =>
          \A b \in LogIds \ {logged'.entry.plugin[1]} :
              \A n \in LogFilesOf(b) :
                  /\ n \in DOMAIN files <=> n \in DOMAIN files'
                  /\ n \in DOMAIN files => files'[n] = files[n]]_vars

\* C38: when enable_plugin or disable_plugin returns an error (the spawn
\* fails, or the id has no row for the kill) the enable-map entry of the id
\* on disk is what it was before the call.
C38_FailedTransitionKeepsMap ==
    [][\A t \in Tasks :
          (/\ pc[t] = "idle"
           /\ op'[t] \in {"enable", "disable"}
           /\ pc'[t] = "done"
           /\ result'[t] = "err")
              => config'[arg'[t]] = config[arg'[t]]]_vars

\* C39: when enable_plugin has returned Ok, having emitted enabled, the
\* registry holds a row for the id with enabled = true and a child handle
\* (so it does not report success for an id that has no row and that the
\* re-scan does not find); and in every state a row with enabled = true
\* has a child handle.
C39_EnabledHasChild ==
    /\ \A t \in Tasks :
           (/\ op[t] = "enable"
            /\ pc[t] = "done"
            /\ result[t] = "ok"
            /\ CountType(events, "enabled") = 1)
               => /\ plugins[arg[t]].present
                  /\ plugins[arg[t]].enabled
                  /\ plugins[arg[t]].process = "Some"
    /\ \A p \in PluginIds :
           (plugins[p].present /\ plugins[p].enabled)
               => plugins[p].process = "Some"

====
